---- MODULE Spec2Model ----
(***************************************************************************)
(* Job orchestration layer of the Qwen-Image-Edit backend                  *)
(* (src/backend/comfyui_modal.py): the batch endpoint ComfyUI.generate,    *)
(* the per-perspective ComfyUI.infer_single and the submit / poll / fetch  *)
(* loop of ComfyUI._execute_workflow_via_api, run against an engine        *)
(* (ComfyUI server) whose answers are chosen nondeterministically.         *)
(*                                                                         *)
(* One generate call is modelled.  Steps are taken at the calls to the     *)
(* engine; the Python code between two engine calls is one action.         *)
(***************************************************************************)
EXTENDS Integers, Sequences, FiniteSets, TLC

\* ------------------------------------------------------------------------
\* Bounds of the model
\* ------------------------------------------------------------------------
\* longest perspectives list of a request
MaxPersp == 3
\* most calls of workflow_executor.py a caller makes in a row
MaxCalls == 2
\* the timeout parameter of _execute_workflow_via_api, in seconds (the code's
\* default is 120; the loop is the same for every value)
Timeout == 3
\* time in whole seconds an iteration of the poll loop takes on top of the
\* 1 s sleep: its engine calls answer at once, or take a second
PollDelays == {0, 1}

\* ------------------------------------------------------------------------
\* Values
\* ------------------------------------------------------------------------
\* a key that is missing from a dict (dict.get returns its default)
Absent == "<absent>"
\* Python None
None == "<None>"

\* str(i) for the small non-negative integers the model uses
DecimalStr == <<"0", "1", "2", "3", "4", "5", "6", "7", "8", "9">>
str(n) == DecimalStr[n + 1]

\* ------------------------------------------------------------------------
\* Requests
\* ------------------------------------------------------------------------
\* request["image"]: given/len describe the string itself, decodable/nbytes
\* describe what base64.b64decode does with it
ImageInputs ==
    { [given |-> FALSE, len |-> 0,   decodable |-> TRUE,  nbytes |-> 0],
      [given |-> TRUE,  len |-> 0,   decodable |-> TRUE,  nbytes |-> 0],
      [given |-> TRUE,  len |-> 5,   decodable |-> FALSE, nbytes |-> 0],
      [given |-> TRUE,  len |-> 132, decodable |-> TRUE,  nbytes |-> 99],
      [given |-> TRUE,  len |-> 136, decodable |-> TRUE,  nbytes |-> 100] }

Persp(id, name, prompt) ==
    [isdict |-> TRUE, id |-> id, name |-> name, prompt |-> prompt]

\* an element of request["perspectives"]; the last one is not a JSON object
PerspInputs ==
    { Persp("a", "A", "p"),
      Persp(Absent, Absent, "q"),
      Persp("a", "A", ""),
      Persp("c", "C", Absent),
      [isdict |-> FALSE, id |-> Absent, name |-> Absent, prompt |-> Absent] }

\* request["steps"]: missing, an integer, or a value that is not an int
StepsInputs ==
    { [kind |-> "int", v |-> 3], [kind |-> "int", v |-> 4],
      [kind |-> "int", v |-> 8], [kind |-> "int", v |-> 9],
      [kind |-> "other", v |-> 0] }

\* request["cfg_scale"] in tenths (10 is 1.0), or a value that is not a number
CfgInputs ==
    { [kind |-> "num", v |-> 9], [kind |-> "num", v |-> 50],
      [kind |-> "num", v |-> 51], [kind |-> "other", v |-> 0] }

\* request["seed"]: None, an integer, or a string given as its characters
SeedInputs ==
    { [kind |-> "none", int |-> 0, chars |-> <<>>],
      [kind |-> "str",  int |-> 0, chars |-> <<"1", "2">>],
      [kind |-> "str",  int |-> 0, chars |-> <<"sup2">>] }

\* request["steps"] around the range 4..8: integers, JSON true (True == 1), a
\* value of another type (a float, a string, null)
RangeStepsInputs ==
    { [kind |-> "int", v |-> n] : n \in 3..9 }
        \cup { [kind |-> "bool", v |-> 1], [kind |-> "other", v |-> 0] }

\* request["cfg_scale"] around the range 1.0..5.0, in tenths: numbers, JSON NaN
\* (json.loads reads it as float("nan")), JSON true and false (True == 1.0,
\* False == 0.0), a value of another type
RangeCfgInputs ==
    { [kind |-> "num", v |-> n] : n \in {9, 10, 11, 30, 49, 50, 51} }
        \cup { [kind |-> "nan", v |-> 0], [kind |-> "bool", v |-> 10],
               [kind |-> "bool", v |-> 0], [kind |-> "other", v |-> 0] }

SeqsUpTo(S, n) == UNION { [1..k -> S] : k \in 0..n }

Requests ==
    [ image : ImageInputs,
      perspectives : SeqsUpTo(PerspInputs, MaxPersp),
      steps : StepsInputs,
      cfg_scale : CfgInputs,
      seed : SeedInputs ]

\* requests that pass every check before the two range checks
RangeRequests ==
    [ image : {[given |-> TRUE, len |-> 136, decodable |-> TRUE, nbytes |-> 100]},
      perspectives : {<<Persp("a", "A", "p")>>},
      steps : RangeStepsInputs,
      cfg_scale : RangeCfgInputs,
      seed : {[kind |-> "none", int |-> 0, chars |-> <<>>]} ]

\* request["seed"] over its kinds: missing, integers of either sign, strings
\* of decimal digits, a string that is no number
WideSeedInputs ==
    { [kind |-> "none", int |-> 0, chars |-> <<>>],
      [kind |-> "int",  int |-> 7, chars |-> <<>>],
      [kind |-> "int",  int |-> 0, chars |-> <<>>],
      [kind |-> "int",  int |-> -1, chars |-> <<>>],
      [kind |-> "str",  int |-> 0, chars |-> <<"1", "2">>],
      [kind |-> "str",  int |-> 0, chars |-> <<"0", "7">>],
      [kind |-> "str",  int |-> 0, chars |-> <<"a", "b", "c">>] }

\* requests that pass every check, with one or two perspectives and any seed
SeedRequests ==
    [ image : {[given |-> TRUE, len |-> 136, decodable |-> TRUE, nbytes |-> 100]},
      perspectives : {<<Persp("a", "A", "p")>>,
                      <<Persp("a", "A", "p"), Persp("c", "C", Absent)>>},
      steps : {[kind |-> "int", v |-> 8]},
      cfg_scale : {[kind |-> "num", v |-> 30]},
      seed : WideSeedInputs ]

\* ------------------------------------------------------------------------
\* State
\* ------------------------------------------------------------------------
VARIABLES
    request,          \* the request dict generate was called with
    pc,               \* where the generate call stands
    i,                \* loop index of "for i, perspective in enumerate(...)"
    generated_images, \* the list generate accumulates
    response,         \* what generate returned (NoResponse while running)
    workflow,         \* workflow of the running infer_single call
    prompt_id,        \* prompt_id of the running _execute_workflow_via_api call
    elapsed,          \* time.time() - start_time of the poll loop, whole seconds
    files,            \* files present under ComfyUI's input/ and temp/
    submissions,      \* POST /prompt requests issued, in order
    pollCount,        \* GET /history requests issued for the running job
    fetchCount,       \* GET /view requests issued for the running job
    jobState,         \* per perspective: state of its job
    seen,             \* the kinds of answers the polls of the running job got
    last,             \* the engine call made last, the kind of its answer, and
                      \* the highest level logged while handling it
    heap,             \* the dicts of workflow graphs, by address
    graphs,           \* addresses of the graphs that exist, in order of creation
    pending,          \* library calls the caller is going to make, in order
    calls,            \* library calls made, with what each returned
    app_error         \* the AppError the last error_handler call returned

\* the state of a generate call
generateVars == <<request, pc, i, generated_images, response, workflow, prompt_id,
                  elapsed, files, submissions, pollCount, fetchCount, jobState, seen,
                  last>>

\* the state of calls of workflow_executor.py and error_handler.py made
\* outside of a generate call
libVars == <<heap, graphs, pending, calls, app_error>>

vars == <<request, pc, i, generated_images, response, workflow, prompt_id, elapsed,
          files, submissions, pollCount, fetchCount, jobState, seen, last,
          heap, graphs, pending, calls, app_error>>

\* ------------------------------------------------------------------------
\* Responses of generate
\* ------------------------------------------------------------------------
NoResponse ==
    [status_code |-> 0, error |-> "", message |-> "", about |-> "", images |-> <<>>]

\* JSONResponse(status_code=..., content={"error": ..., "message": ...});
\* message is the fixed text, about the perspective name or index put in it
ErrorResponse(status, code, text, about) ==
    [status_code |-> status, error |-> code, message |-> text, about |-> about,
     images |-> <<>>]

\* JSONResponse(content={"images": generated_images, ...}), status 200
SuccessResponse(images) ==
    [status_code |-> 200, error |-> "", message |-> "", about |-> "", images |-> images]

\* ------------------------------------------------------------------------
\* Validation in generate, in the order of the code
\* ------------------------------------------------------------------------
\* base64.b64decode(image_base64) followed by the length check
ImageDecodes(img) == img.decodable /\ img.nbytes >= 100

\* the test of one perspective inside the for loop
BadPerspective(p) == ~p.isdict \/ p.prompt \in {Absent, ""}

\* the for loop reporting the last perspective that fails the test
FirstBadPerspective_Last(ps) ==
    IF \E k \in 1..Len(ps) : BadPerspective(ps[k])
    THEN (CHOOSE k \in 1..Len(ps) :
              /\ BadPerspective(ps[k])
              /\ \A j \in (k + 1)..Len(ps) : ~BadPerspective(ps[j])) - 1
    ELSE -1

\* smallest (0-based) index the for loop stops at; -1 when it runs through
FirstBadPerspective(ps) ==
    IF \E k \in 1..Len(ps) : BadPerspective(ps[k])
    THEN (CHOOSE k \in 1..Len(ps) :
              /\ BadPerspective(ps[k])
              /\ \A j \in 1..(k - 1) : ~BadPerspective(ps[j])) - 1
    ELSE -1

\* isinstance(steps, int): bool is a subclass of int
IsInt(st) == st.kind \in {"int", "bool"}

\* not (not isinstance(steps, int) or steps < 4 or steps > 8)
StepsValid(st) == IsInt(st) /\ ~(st.v < 4) /\ ~(st.v > 8)

\* isinstance(cfg_scale, (int, float)): bool and float("nan") included
IsNumber(c) == c.kind \in {"num", "bool", "nan"}

\* cfg_scale < bound and cfg_scale > bound, bound in tenths; every comparison
\* with nan is False
CfgLess(c, bound) == c.kind # "nan" /\ c.v < bound

CfgGreater(c, bound) == c.kind # "nan" /\ c.v > bound

\* not (not isinstance(cfg_scale, (int, float)) or cfg_scale < 1.0
\*      or cfg_scale > 5.0)
CfgValid(c) == IsNumber(c) /\ ~CfgLess(c, 10) /\ ~CfgGreater(c, 50)

\* validation without the steps check
ValidateRequest_NoSteps(req) ==
    IF ~req.image.given \/ req.image.len = 0
    THEN ErrorResponse(400, "validation_error", "image is required", "")
    ELSE IF ~ImageDecodes(req.image)
    THEN ErrorResponse(400, "invalid_image", "invalid base64 image data", "")
    ELSE IF Len(req.perspectives) = 0
    THEN ErrorResponse(400, "validation_error",
                       "at least one perspective is required", "")
    ELSE IF FirstBadPerspective(req.perspectives) >= 0
    THEN ErrorResponse(400, "validation_error", "perspective[i].prompt is required",
                       str(FirstBadPerspective(req.perspectives)))
    ELSE IF ~CfgValid(req.cfg_scale)
    THEN ErrorResponse(400, "invalid_params",
                       "cfg_scale must be a number between 1.0 and 5.0", "")
    ELSE NoResponse

\* validation with the cfg_scale check made before the steps check
ValidateRequest_CfgFirst(req) ==
    IF ~req.image.given \/ req.image.len = 0
    THEN ErrorResponse(400, "validation_error", "image is required", "")
    ELSE IF ~ImageDecodes(req.image)
    THEN ErrorResponse(400, "invalid_image", "invalid base64 image data", "")
    ELSE IF Len(req.perspectives) = 0
    THEN ErrorResponse(400, "validation_error",
                       "at least one perspective is required", "")
    ELSE IF FirstBadPerspective(req.perspectives) >= 0
    THEN LET k == FirstBadPerspective(req.perspectives)
         IN  IF ~req.perspectives[k + 1].isdict
             THEN ErrorResponse(400, "validation_error",
                                "perspective[i] must be an object", str(k))
             ELSE ErrorResponse(400, "validation_error",
                                "perspective[i].prompt is required", str(k))
    ELSE IF ~CfgValid(req.cfg_scale)
    THEN ErrorResponse(400, "invalid_params",
                       "cfg_scale must be a number between 1.0 and 5.0", "")
    ELSE IF ~StepsValid(req.steps)
    THEN ErrorResponse(400, "invalid_params",
                       "steps must be an integer between 4 and 8", "")
    ELSE NoResponse

\* the 400 response of the first failing check, NoResponse when all pass
ValidateRequest(req) ==
    IF ~req.image.given \/ req.image.len = 0
    THEN ErrorResponse(400, "validation_error", "image is required", "")
    ELSE IF ~ImageDecodes(req.image)
    THEN ErrorResponse(400, "invalid_image", "invalid base64 image data", "")
    ELSE IF Len(req.perspectives) = 0
    THEN ErrorResponse(400, "validation_error",
                       "at least one perspective is required", "")
    ELSE IF FirstBadPerspective(req.perspectives) >= 0
    THEN LET k == FirstBadPerspective(req.perspectives)
         IN  IF ~req.perspectives[k + 1].isdict
             THEN ErrorResponse(400, "validation_error",
                                "perspective[i] must be an object", str(k))
             ELSE ErrorResponse(400, "validation_error",
                                "perspective[i].prompt is required", str(k))
    ELSE IF ~StepsValid(req.steps)
    THEN ErrorResponse(400, "invalid_params",
                       "steps must be an integer between 4 and 8", "")
    ELSE IF ~CfgValid(req.cfg_scale)
    THEN ErrorResponse(400, "invalid_params",
                       "cfg_scale must be a number between 1.0 and 5.0", "")
    ELSE NoResponse

\* ------------------------------------------------------------------------
\* Per-perspective values of the batch loop of generate
\* ------------------------------------------------------------------------
\* perspective.get("id", str(i))
perspective_id(ps, k) == IF ps[k + 1].id = Absent THEN str(k) ELSE ps[k + 1].id

\* perspective.get("name", f"<view>{i+1}")
perspective_name(ps, k) ==
    IF ps[k + 1].name = Absent THEN "view" \o str(k + 1) ELSE ps[k + 1].name

\* seed if seed else "random"
seed_used(seed) ==
    IF seed.kind = "none" \/ (seed.kind = "int" /\ seed.int = 0)
          \/ (seed.kind = "str" /\ seed.chars = <<>>)
    THEN [kind |-> "str", int |-> 0, chars |-> <<"random">>]
    ELSE seed

\* generate with the images produced so far put into the error response
ExceptResponse_Partial(exc, name) ==
    IF exc = "TimeoutError"
    THEN [status_code |-> 504, error |-> "timeout", message |-> "generation timed out",
          about |-> name, images |-> generated_images]
    ELSE [status_code |-> 500, error |-> "generation_error",
          message |-> "image generation failed", about |-> name,
          images |-> generated_images]

\* the except clauses of generate around infer_single
ExceptResponse(exc, name) ==
    IF exc = "TimeoutError"
    THEN ErrorResponse(504, "timeout", "generation timed out", name)
    ELSE IF exc = "RuntimeError"
    THEN ErrorResponse(500, "generation_error", "image generation failed", name)
    ELSE ErrorResponse(500, "generation_error", "unknown error", name)

\* ------------------------------------------------------------------------
\* Workflow creation (workflow_executor.py)
\* ------------------------------------------------------------------------
\* values random.randint(0, 2**63 - 1) can return: the lower end of the range
\* and a large value (the model's integers are 32 bits wide)
RandomSeeds == {0, 2147483647}

\* the range of randint(0, 2**63 - 1), the seeds of 63 bits
SeedRange == 0..2147483647

AsciiDigits == {"0", "1", "2", "3", "4", "5", "6", "7", "8", "9"}

\* characters for which str.isdigit() holds: the decimal digits and digits
\* such as SUPERSCRIPT TWO, which int() does not accept
DigitChars == AsciiDigits \cup {"sup2"}

isdigit(chars) == Len(chars) > 0 /\ \A k \in 1..Len(chars) : chars[k] \in DigitChars

DigitValue(c) == CHOOSE n \in 0..9 : DecimalStr[n + 1] = c

RECURSIVE int(_)
\* int(seed) of a string of decimal digits
int(chars) ==
    IF chars = <<>> THEN 0
    ELSE 10 * int(SubSeq(chars, 1, Len(chars) - 1)) + DigitValue(chars[Len(chars)])

\* int(seed) raises ValueError
IntRaises(chars) == \E k \in 1..Len(chars) : chars[k] \notin AsciiDigits

\* the seed branch drawing a random seed for every string
SeedValue_RandomForStr(seed, r) ==
    IF seed.kind = "none" THEN r
    ELSE IF seed.kind = "str" THEN r
    ELSE seed.int

\* the seed_value branch of inject_workflow_parameters; r is the random draw
SeedValue(seed, r) ==
    IF seed.kind = "none" THEN r
    ELSE IF seed.kind = "str" THEN (IF isdigit(seed.chars) THEN int(seed.chars) ELSE r)
    ELSE seed.int

\* create_workflow raises (the int() call on a digit string int() rejects)
CreateWorkflowRaises(seed) ==
    seed.kind = "str" /\ isdigit(seed.chars) /\ IntRaises(seed.chars)

\* the fields create_workflow writes into the template: 31.image, 115.text,
\* 14.steps, 14.cfg, 14.seed, 80.filename_prefix
create_workflow(input_image, prompt, steps, cfg, seed, output_prefix, r) ==
    [image |-> input_image, text |-> prompt, steps |-> steps, cfg |-> cfg,
     seed |-> SeedValue(seed, r), filename_prefix |-> output_prefix]

NoWorkflow ==
    [image |-> [dir |-> "", cid |-> -1], text |-> "", steps |-> 0, cfg |-> 0,
     seed |-> -1,
     filename_prefix |-> [prefix |-> "", cid |-> -1]]

\* uuid.uuid4().hex[:8] of the k-th infer_single call: distinct per call
client_id(k) == k

\* ------------------------------------------------------------------------
\* The engine's answers, job states
\* ------------------------------------------------------------------------
\* answers to POST /prompt: a body with prompt_id, a body with neither
\* prompt_id nor error, a body with "error", URLError, HTTPError, a socket
\* timeout while waiting for or reading the response, a body that is not JSON
SubmitAnswers ==
    {"ok", "no_id", "rejected", "url_error", "http_error", "timed_out", "bad_body"}

\* answers to GET /history/<prompt_id>: HTTP 404, another HTTP error, an I/O
\* error, a history without the job, an entry with status_str "error", an
\* entry without outputs, outputs without node 80, node 80 without images,
\* node 80 with images
PollAnswers ==
    {"http404", "http_error", "io_error", "absent", "error", "running", "no80",
     "empty80", "done"}

\* the answers that carry an entry history[prompt_id]
EntryAnswers == {"error", "running", "no80", "empty80", "done"}

\* kind of a poll answer: the job is not known to the engine (yet), the
\* engine reports its failure, the engine reports its image, anything else
PollKind(a) ==
    CASE a \in {"http404", "absent"} -> "not_found"
      [] a = "error" -> "error"
      [] a = "done" -> "done"
      [] OTHER -> "other"

\* answers to GET /view: the bytes, HTTP 404, another HTTP error, an I/O error
FetchAnswers == {"ok", "http404", "http_error", "io_error"}

\* outcomes of the two file writes of infer_single
WriteOutcomes == {"ok", "image_write_fails", "workflow_write_fails"}

JobStates == {"NoJob", "Init", "Submitted", "Fetching", "Done", "Failed", "TimedOut"}

Terminal == {"Done", "Failed", "TimedOut"}

Last(op, answer, log) == [op |-> op, answer |-> answer, log |-> log]

InputFile(cid) == [dir |-> "input", cid |-> cid]

WorkflowFile(cid) == [dir |-> "temp", cid |-> cid]

\* the prompt_id the engine gives the job submitted for perspective k
PromptId(k) == "prompt-" \o str(k)

\* the bytes GET /view returns for the first image node 80 of job pid saved
ImageBytes(pid) == [saved_by |-> pid]

\* base64.b64encode(img_bytes).decode("utf-8")
b64encode(bytes) == [b64 |-> bytes]

\* ------------------------------------------------------------------------
\* The workflow template (workflow_template.py)
\* ------------------------------------------------------------------------
\* values of node inputs: a string, an int, a float (in tenths), and
\* ["<node id>", 0], the output 0 of another node
StrVal(s) == [t |-> "str", s |-> s, n |-> 0]

IntVal(n) == [t |-> "int", s |-> "", n |-> n]

FloatVal(n) == [t |-> "float", s |-> "", n |-> n]

\* every reference made to a node id no graph has
LinkVal_Absent(node) == [t |-> "link", s |-> "0", n |-> 0]

LinkVal(node) == [t |-> "link", s |-> node, n |-> 0]

INPUT_IMAGE_PLACEHOLDER == StrVal("__INPUT_IMAGE__")

PROMPT_PLACEHOLDER == StrVal("__PROMPT__")

SEED_PLACEHOLDER == StrVal("__SEED__")

STEPS_PLACEHOLDER == StrVal("__STEPS__")

CFG_PLACEHOLDER == StrVal("__CFG__")

OUTPUT_PREFIX_PLACEHOLDER == StrVal("__OUTPUT_PREFIX__")

\* the six placeholder literals
Placeholders ==
    {INPUT_IMAGE_PLACEHOLDER, PROMPT_PLACEHOLDER, SEED_PLACEHOLDER, STEPS_PLACEHOLDER,
     CFG_PLACEHOLDER, OUTPUT_PREFIX_PLACEHOLDER}

\* the keys of the dict literal get_workflow_template returns, in its order
\* the dict literal without the negative prompt encoder, node 3
NodeOrder_NoNegative ==
    <<"22", "76", "77", "125", "20", "31", "39", "10", "115", "2", "1", "14", "12",
      "80">>

NodeOrder ==
    <<"22", "76", "77", "125", "20", "31", "39", "10", "115", "3", "2", "1", "14",
      "12", "80">>

\* the nodes of the dict literal: class_type and inputs
TemplateNodes ==
    [id \in {NodeOrder[k] : k \in 1..Len(NodeOrder)} |->
      CASE id = "22" ->
             [class_type |-> "VAELoader",
              inputs |-> [vae_name |-> StrVal("qwen_image_vae.safetensors")]]
        [] id = "76" ->
             [class_type |-> "CLIPLoader",
              inputs |-> [clip_name |-> StrVal("qwen_2.5_vl_7b.safetensors"),
                          type |-> StrVal("stable_diffusion"),
                          device |-> StrVal("default")]]
        [] id = "77" ->
             [class_type |-> "UNETLoader",
              inputs |-> [unet_name |-> StrVal("Qwen-Image-Edit-2511.safetensors"),
                          weight_dtype |-> StrVal("default")]]
        [] id = "125" ->
             [class_type |-> "LoraLoaderModelOnly",
              inputs |-> [model |-> LinkVal("77"),
                          lora_name |->
                              StrVal("Qwen-Image-Lightning-4steps-V1.0.safetensors"),
                          strength_model |-> FloatVal(8)]]
        [] id = "20" ->
             [class_type |-> "LoraLoaderModelOnly",
              inputs |-> [model |-> LinkVal("125"),
                          lora_name |->
                              StrVal("Qwen-Image-Lightning-8steps-V1.0.safetensors"),
                          strength_model |-> FloatVal(10)]]
        [] id = "31" ->
             [class_type |-> "LoadImage",
              inputs |-> [image |-> INPUT_IMAGE_PLACEHOLDER, upload |-> StrVal("image")]]
        [] id = "39" ->
             [class_type |-> "ImageScaleToTotalPixels",
              inputs |-> [image |-> LinkVal("31"), upscale_method |-> StrVal("lanczos"),
                          megapixels |-> IntVal(1), resolution_steps |-> IntVal(1)]]
        [] id = "10" ->
             [class_type |-> "VAEEncode",
              inputs |-> [pixels |-> LinkVal("39"), vae |-> LinkVal("22")]]
        [] id = "115" ->
             [class_type |-> "TextEncodeQwenImageEditPlus",
              inputs |-> [clip |-> LinkVal("76"), vae |-> LinkVal("22"),
                          image1 |-> LinkVal("39"), text |-> PROMPT_PLACEHOLDER]]
        [] id = "3" ->
             [class_type |-> "TextEncodeQwenImageEditPlus",
              inputs |-> [clip |-> LinkVal("76"), vae |-> LinkVal("22"),
                          image1 |-> LinkVal("39"), text |-> StrVal("")]]
        [] id = "2" ->
             [class_type |-> "ModelSamplingAuraFlow",
              inputs |-> [model |-> LinkVal("20"), shift |-> IntVal(3)]]
        [] id = "1" ->
             [class_type |-> "CFGNorm",
              inputs |-> [model |-> LinkVal("2"), strength |-> IntVal(1)]]
        [] id = "14" ->
             [class_type |-> "KSampler",
              inputs |-> [model |-> LinkVal("1"), positive |-> LinkVal("115"),
                          negative |-> LinkVal("3"), latent_image |-> LinkVal("10"),
                          seed |-> SEED_PLACEHOLDER,
                          control_after_generate |-> StrVal("randomize"),
                          steps |-> STEPS_PLACEHOLDER, cfg |-> CFG_PLACEHOLDER,
                          sampler_name |-> StrVal("euler"), scheduler |-> StrVal("simple"),
                          denoise |-> FloatVal(10)]]
        [] id = "12" ->
             [class_type |-> "VAEDecode",
              inputs |-> [samples |-> LinkVal("14"), vae |-> LinkVal("22")]]
        [] id = "80" ->
             [class_type |-> "SaveImage",
              inputs |-> [images |-> LinkVal("12"),
                          filename_prefix |-> OUTPUT_PREFIX_PLACEHOLDER]]]

\* ------------------------------------------------------------------------
\* Graphs as Python objects.  heap[a] is the object at address a: a graph (the
\* top-level dict, node id -> address of the node) or a node (its dict with
\* class_type and inputs).  The lists ["<id>", 0] are written by no code and
\* are kept as values.
\* ------------------------------------------------------------------------
\* the keys of graph g that are in ids, in template order
KeysOf(h, g, ids) == SelectSeq(NodeOrder, LAMBDA id : id \in DOMAIN h[g] \cap ids)

\* new objects for the nodes listed in order, then the dict holding them; the
\* new graph is the last object of the heap returned
Allocate(h, order, nodes) ==
    LET base == Len(h)
        ids == {order[k] : k \in 1..Len(order)}
    IN  h \o [k \in 1..Len(order) |-> nodes[order[k]]]
          \o << [id \in ids |-> base + (CHOOSE k \in 1..Len(order) : order[k] = id)] >>

\* get_workflow_template(): the dict literal is evaluated anew at every call
get_workflow_template(h) == Allocate(h, NodeOrder, TemplateNodes)

\* copy.copy in place of copy.deepcopy: a new top-level dict holding the
\* same node objects
deepcopy_Shallow(h, g) == Append(h, h[g])

\* copy.deepcopy(workflow): a new dict with a new copy of every node
deepcopy(h, g) ==
    Allocate(h, KeysOf(h, g, DOMAIN h[g]), [id \in DOMAIN h[g] |-> h[h[g][id]]])

\* the node with key id of graph g
Node(h, g, id) == h[h[g][id]]

\* ------------------------------------------------------------------------
\* Parameter injection (workflow_executor.py).  The _inject_* functions write
\* into the graph g they are given; each returns the heap after its writes.
\* ------------------------------------------------------------------------
_inject_input_image(h, g, input_image) ==
    IF "31" \in DOMAIN h[g]
    THEN [h EXCEPT ![h[g]["31"]].inputs.image = input_image]
    ELSE h

\* the prompt written only when it is not empty
_inject_prompt_NonEmpty(h, g, prompt) ==
    IF "115" \in DOMAIN h[g] /\ prompt.s # ""
    THEN [h EXCEPT ![h[g]["115"]].inputs.text = prompt]
    ELSE h

\* the prompt written into both text encoders, nodes 115 and 3
_inject_prompt_Both(h, g, prompt) ==
    IF "115" \in DOMAIN h[g]
    THEN [h EXCEPT ![h[g]["115"]].inputs.text = prompt,
                   ![h[g]["3"]].inputs.text = prompt]
    ELSE h

_inject_prompt(h, g, prompt) ==
    IF "115" \in DOMAIN h[g]
    THEN [h EXCEPT ![h[g]["115"]].inputs.text = prompt]
    ELSE h

\* steps and cfg written, the seed left as it is
_inject_ksampler_params_NoSeed(h, g, steps, cfg, seed) ==
    IF "14" \in DOMAIN h[g]
    THEN [h EXCEPT ![h[g]["14"]].inputs.steps = steps,
                   ![h[g]["14"]].inputs.cfg = cfg]
    ELSE h

_inject_ksampler_params(h, g, steps, cfg, seed) ==
    IF "14" \in DOMAIN h[g]
    THEN [h EXCEPT ![h[g]["14"]].inputs.steps = steps,
                   ![h[g]["14"]].inputs.cfg = cfg,
                   ![h[g]["14"]].inputs.seed = seed]
    ELSE h

_inject_output_prefix(h, g, output_prefix) ==
    IF "80" \in DOMAIN h[g]
    THEN [h EXCEPT ![h[g]["80"]].inputs.filename_prefix = output_prefix]
    ELSE h

\* inject_workflow_parameters(workflow=wf, ...) for arguments a and random draw
\* r, when int(seed) does not raise: the heap after the call; the graph
\* returned is the one deepcopy made
inject_workflow_parameters(h, wf, a, r) ==
    LET h0 == deepcopy(h, wf)
        result == Len(h0)
        seed_value == IntVal(SeedValue(a.seed, r))
        h1 == _inject_input_image(h0, result, a.input_image)
        h2 == _inject_prompt(h1, result, a.prompt)
        h3 == _inject_ksampler_params(h2, result, a.steps, a.cfg, seed_value)
    IN  _inject_output_prefix(h3, result, a.output_prefix)

\* the seed argument: None, integers, strings of decimal digits, strings that
\* are not numbers ("abc", "-5", ""), and a digit string int() rejects
InjectSeeds ==
    { [kind |-> "none", int |-> 0, chars |-> <<>>],
      [kind |-> "int",  int |-> 7, chars |-> <<>>],
      [kind |-> "int",  int |-> -1, chars |-> <<>>],
      [kind |-> "str",  int |-> 0, chars |-> <<"1", "2">>],
      [kind |-> "str",  int |-> 0, chars |-> <<"0", "7">>],
      [kind |-> "str",  int |-> 0, chars |-> <<"a", "b", "c">>],
      [kind |-> "str",  int |-> 0, chars |-> <<"-", "5">>],
      [kind |-> "str",  int |-> 0, chars |-> <<>>],
      [kind |-> "str",  int |-> 0, chars |-> <<"sup2">>] }

\* calls of inject_workflow_parameters and create_workflow with their
\* arguments (the workflow argument is chosen when the call is made)
InjectArgs ==
    [ fn : {"inject_workflow_parameters", "create_workflow"},
      input_image : {StrVal("in_a.png"), StrVal("in_b.png")},
      prompt : {StrVal(""), StrVal("p"), StrVal("__PROMPT__")},
      steps : {IntVal(4), IntVal(8)},
      cfg : {FloatVal(10), FloatVal(35)},
      seed : InjectSeeds,
      output_prefix : {StrVal("qwen_a"), StrVal("qwen_b")} ]

\* two argument lists that differ in every parameter
SequenceArgs ==
    { a \in InjectArgs :
        \/ /\ a.input_image = StrVal("in_a.png") /\ a.prompt = StrVal("p")
           /\ a.steps = IntVal(4) /\ a.cfg = FloatVal(10)
           /\ a.seed = [kind |-> "int", int |-> 7, chars |-> <<>>]
           /\ a.output_prefix = StrVal("qwen_a")
        \/ /\ a.input_image = StrVal("in_b.png") /\ a.prompt = StrVal("")
           /\ a.steps = IntVal(8) /\ a.cfg = FloatVal(35)
           /\ a.seed = [kind |-> "none", int |-> 0, chars |-> <<>>]
           /\ a.output_prefix = StrVal("qwen_b") }

\* what the caller is going to do: one call with any arguments, or a sequence
\* of up to MaxCalls calls
InjectPending ==
    { <<a>> : a \in InjectArgs }
        \cup UNION { [1..n -> SequenceArgs] : n \in 2..MaxCalls }

\* the nodes inject_workflow_parameters writes to
DesignatedNodes == {"31", "115", "14", "80"}

\* nodes missing from the workflow the caller passes: none, one of the
\* designated nodes, all of them
Drops == {{}, DesignatedNodes} \cup {{id} : id \in DesignatedNodes}

\* ------------------------------------------------------------------------
\* Error construction (error_handler.py)
\* ------------------------------------------------------------------------
\* the members of ErrorCode
ErrorCode ==
    {"validation_error", "invalid_image", "invalid_params", "generation_error",
     "model_error", "server_error", "timeout", "service_unavailable"}

\* ERROR_MESSAGES: default message and status code per error code
ERROR_MESSAGES ==
    [code \in ErrorCode |->
        CASE code = "validation_error" ->
                 [message |-> "request validation failed", status_code |-> 400]
          [] code = "invalid_image" ->
                 [message |-> "invalid image data", status_code |-> 400]
          [] code = "invalid_params" ->
                 [message |-> "parameter out of range", status_code |-> 400]
          [] code = "generation_error" ->
                 [message |-> "image generation failed", status_code |-> 500]
          [] code = "model_error" ->
                 [message |-> "model loading failed", status_code |-> 503]
          [] code = "server_error" ->
                 [message |-> "internal server error", status_code |-> 500]
          [] code = "timeout" ->
                 [message |-> "generation timed out", status_code |-> 504]
          [] code = "service_unavailable" ->
                 [message |-> "service temporarily unavailable", status_code |-> 503]]

\* the fallback of ERROR_MESSAGES.get(code, ...)
UnknownErrorInfo == [message |-> "unknown error", status_code |-> 500]

\* "x or y" of two optional strings: y when x is None or empty
Or(x, y) == IF x \in {None, ""} THEN y ELSE x

\* create_error looking no code up: the fallback entry for every code
create_error_NoLookup(code, message, details) ==
    [code |-> code, message |-> Or(message, UnknownErrorInfo.message),
     status_code |-> UnknownErrorInfo.status_code, details |-> details]

create_error(code, message, details) ==
    LET error_info == IF code \in DOMAIN ERROR_MESSAGES
                      THEN ERROR_MESSAGES[code] ELSE UnknownErrorInfo
    IN  [code |-> code, message |-> Or(message, error_info.message),
         status_code |-> error_info.status_code, details |-> details]

create_validation_error(message, details) ==
    create_error("validation_error", message, details)

create_invalid_image_error(details) ==
    create_error("invalid_image", "invalid base64 image data", details)

create_invalid_params_error(message) == create_error("invalid_params", message, None)

create_generation_error(perspective_name_, details) ==
    create_error("generation_error",
                 IF perspective_name_ \in {None, ""}
                 THEN "image generation failed"
                 ELSE "image generation failed for " \o perspective_name_,
                 details)

create_model_error(details) ==
    create_error("model_error", "model loading failed, service unavailable", details)

\* timeout_seconds is left at its default, 120
create_timeout_error(perspective_name_) ==
    create_error("timeout",
                 IF perspective_name_ \in {None, ""}
                 THEN "generation timed out (120 s)"
                 ELSE "generation timed out (120 s) for " \o perspective_name_,
                 None)

create_server_error(details) == create_error("server_error", None, details)

create_service_unavailable_error(reason) ==
    create_error("service_unavailable",
                 IF reason \in {None, ""}
                 THEN "service temporarily unavailable"
                 ELSE "service temporarily unavailable: " \o reason,
                 None)

\* a call of error_handler.py: the function, and its arguments by position
\* (code is used by create_error only; message is the first string argument
\* of a wrapper, details its second)
ErrorCalls ==
    [ fn : {"create_error"}, code : ErrorCode \cup {"no_such_code"},
      message : {None, "", "m"}, details : {None, "d"} ]
    \cup
    [ fn : {"create_validation_error", "create_invalid_image_error",
            "create_invalid_params_error", "create_generation_error",
            "create_model_error", "create_timeout_error", "create_server_error",
            "create_service_unavailable_error"},
      code : {""}, message : {None, "", "m"}, details : {None, "d"} ]

\* the exceptions infer_single raises, as type (in the field code) and
\* message: unhealthy engine, unwritable input image, create_workflow failed,
\* submission rejected (with an engine text that does or does not speak of a
\* model), submission failed with URLError, submission answered with a body
\* that is not JSON, the poll loop timed out, the workflow file unwritable
InferSingleErrors ==
    { [fn |-> "handle_exception", code |-> "RuntimeError",
       message |-> "ComfyUI server is not healthy", details |-> None],
      [fn |-> "handle_exception", code |-> "ValueError",
       message |-> "Failed to save input image: Incorrect padding", details |-> None],
      [fn |-> "handle_exception", code |-> "RuntimeError",
       message |-> "Failed to create workflow: invalid literal for int()",
       details |-> None],
      [fn |-> "handle_exception", code |-> "RuntimeError",
       message |-> "Workflow execution failed: ComfyUI rejected workflow: bad prompt",
       details |-> None],
      [fn |-> "handle_exception", code |-> "RuntimeError",
       message |-> "Workflow execution failed: ComfyUI rejected workflow: no model",
       details |-> None],
      [fn |-> "handle_exception", code |-> "RuntimeError",
       message |-> "Workflow execution failed: Failed to submit workflow to ComfyUI: refused",
       details |-> None],
      [fn |-> "handle_exception", code |-> "RuntimeError",
       message |-> "Workflow execution failed: Expecting value", details |-> None],
      [fn |-> "handle_exception", code |-> "TimeoutError",
       message |-> "Workflow execution timed out after 120 seconds", details |-> None],
      [fn |-> "handle_exception", code |-> "OSError",
       message |-> "No space left on device", details |-> None] }

\* str(error).lower(), as the words of the message
lower(message) ==
    CASE message = "ComfyUI server is not healthy" ->
             <<"comfyui", "server", "is", "not", "healthy">>
      [] message = "Failed to save input image: Incorrect padding" ->
             <<"failed", "to", "save", "input", "image:", "incorrect", "padding">>
      [] message = "Failed to create workflow: invalid literal for int()" ->
             <<"failed", "to", "create", "workflow:", "invalid", "literal", "for",
               "int()">>
      [] message = "Workflow execution failed: ComfyUI rejected workflow: bad prompt" ->
             <<"workflow", "execution", "failed:", "comfyui", "rejected", "workflow:",
               "bad", "prompt">>
      [] message = "Workflow execution failed: ComfyUI rejected workflow: no model" ->
             <<"workflow", "execution", "failed:", "comfyui", "rejected", "workflow:",
               "no", "model">>
      [] message = "Workflow execution failed: Failed to submit workflow to ComfyUI: refused" ->
             <<"workflow", "execution", "failed:", "failed", "to", "submit", "workflow",
               "to", "comfyui:", "refused">>
      [] message = "Workflow execution failed: Expecting value" ->
             <<"workflow", "execution", "failed:", "expecting", "value">>
      [] message = "Workflow execution timed out after 120 seconds" ->
             <<"workflow", "execution", "timed", "out", "after", "120", "seconds">>
      [] OTHER -> <<"no", "space", "left", "on", "device">>

\* word in text, for the words "model", "load", "comfyui" and "server": a
\* word of the text is the word, or the word followed by a colon
Contains(text, word) ==
    \E k \in 1..Len(text) : text[k] \in {word, word \o ":"}

\* handle_exception(error): the isinstance tests in their order, and the
\* tests on the lowercase message of a RuntimeError
handle_exception(error) ==
    IF error.code = "TimeoutError"
    THEN create_timeout_error(None)
    ELSE IF error.code = "RuntimeError"
    THEN LET error_message == lower(error.message)
         IN  IF Contains(error_message, "model") \/ Contains(error_message, "load")
             THEN create_model_error(error.message)
             ELSE IF Contains(error_message, "comfyui")
                        \/ Contains(error_message, "server")
             THEN create_service_unavailable_error("ComfyUI server not responding")
             ELSE create_generation_error(None, error.message)
    ELSE IF error.code = "ValueError"
    THEN create_validation_error(error.message, None)
    ELSE create_server_error(error.message)

\* what the call returns
ErrorCallResult(c) ==
    CASE c.fn = "create_error" -> create_error(c.code, c.message, c.details)
      [] c.fn = "create_validation_error" ->
             create_validation_error(c.message, c.details)
      [] c.fn = "create_invalid_image_error" -> create_invalid_image_error(c.message)
      [] c.fn = "create_invalid_params_error" -> create_invalid_params_error(c.message)
      [] c.fn = "create_generation_error" ->
             create_generation_error(c.message, c.details)
      [] c.fn = "create_model_error" -> create_model_error(c.message)
      [] c.fn = "create_timeout_error" -> create_timeout_error(c.message)
      [] c.fn = "create_server_error" -> create_server_error(c.message)
      [] c.fn = "create_service_unavailable_error" ->
             create_service_unavailable_error(c.message)

\* no AppError was built yet
NoAppError == [code |-> "", message |-> "", details |-> "", status_code |-> 0]

TypeOK ==
    /\ request \in Requests \cup RangeRequests \cup SeedRequests
    /\ pc \in {"generate", "infer", "submit", "loop", "fetch", "done", "call"}
    /\ i \in 0..MaxPersp
    /\ Len(generated_images) <= MaxPersp
    /\ elapsed \in 0..(Timeout + 1)
    /\ pollCount \in 0..Timeout
    /\ fetchCount \in 0..Timeout
    /\ \A k \in 1..Len(jobState) : jobState[k] \in JobStates
    /\ seen \subseteq {"not_found", "error", "done", "other"}

\* entry of generate: nothing done yet
CallEntry ==
    /\ pc = "generate"
    /\ i = 0
    /\ generated_images = <<>>
    /\ response = NoResponse
    /\ workflow = NoWorkflow
    /\ prompt_id = None
    /\ elapsed = 0
    /\ files = {}
    /\ submissions = <<>>
    /\ pollCount = 0
    /\ fetchCount = 0
    /\ jobState = [k \in 1..Len(request.perspectives) |-> "NoJob"]
    /\ seen = {}
    /\ last = Last("none", "", "none")
    /\ heap = <<>>
    /\ graphs = <<>>
    /\ pending = <<>>
    /\ calls = <<>>
    /\ app_error = NoAppError

Init == request \in Requests /\ CallEntry

\* no generate call is under way: the library is called directly
NoRequest ==
    [image |-> [given |-> FALSE, len |-> 0, decodable |-> TRUE, nbytes |-> 0],
     perspectives |-> <<>>, steps |-> [kind |-> "int", v |-> 8],
     cfg_scale |-> [kind |-> "num", v |-> 30],
     seed |-> [kind |-> "none", int |-> 0, chars |-> <<>>]]

GenerateIdle ==
    /\ request = NoRequest
    /\ pc = "call"
    /\ i = 0
    /\ generated_images = <<>>
    /\ response = NoResponse
    /\ workflow = NoWorkflow
    /\ prompt_id = None
    /\ elapsed = 0
    /\ files = {}
    /\ submissions = <<>>
    /\ pollCount = 0
    /\ fetchCount = 0
    /\ jobState = <<>>
    /\ seen = {}
    /\ last = Last("none", "", "none")

\* one call of a function of error_handler.py
InitErrorCall ==
    /\ GenerateIdle
    /\ heap = <<>>
    /\ graphs = <<>>
    /\ calls = <<>>
    /\ app_error = NoAppError
    /\ pending \in {<<c>> : c \in ErrorCalls \cup InferSingleErrors}

\* calls of workflow_executor.py: the caller holds one workflow dict, the
\* template or the template without some of the designated nodes
InitInject ==
    /\ GenerateIdle
    /\ calls = <<>>
    /\ app_error = NoAppError
    /\ pending \in InjectPending
    /\ \E D \in Drops :
         /\ D # {} => (Len(pending) = 1
                          /\ Head(pending).fn = "inject_workflow_parameters")
         /\ heap = Allocate(<<>>,
                            SelectSeq(NodeOrder, LAMBDA id : id \notin D),
                            TemplateNodes)
    /\ graphs = <<Len(heap)>>

\* a generate call, or a call of error_handler.py
InitError == Init \/ InitErrorCall

\* a generate call with a request of the range-check domain
InitRange == request \in RangeRequests /\ CallEntry

\* a generate call with a valid request and a seed of any kind
InitSeed == request \in SeedRequests /\ CallEntry

\* ------------------------------------------------------------------------
\* Exceptions
\* ------------------------------------------------------------------------
\* what the submission block of _execute_workflow_via_api raises for an
\* answer: "none" when it falls through to the poll loop.  URLError and its
\* subclass HTTPError are turned into RuntimeError, an "error" key raises
\* RuntimeError; a socket timeout (TimeoutError) and a JSON error
\* (ValueError) are not caught there
SubmitRaises(a) ==
    CASE a \in {"ok", "no_id"} -> "none"
      [] a \in {"rejected", "url_error", "http_error"} -> "RuntimeError"
      [] a = "timed_out" -> "TimeoutError"
      [] a = "bad_body" -> "ValueError"

\* what the try body of the poll loop raises for a poll answer
PollRaises(a) ==
    CASE a = "http404" -> "HTTPError404"
      [] a = "http_error" -> "HTTPError"
      [] a = "io_error" -> "URLError"
      [] a = "error" -> "RuntimeError"
      [] OTHER -> "none"

\* what _get_image_from_comfyui, called in the same try body, raises
FetchRaises(a) ==
    CASE a = "http404" -> "HTTPError404"
      [] a = "http_error" -> "HTTPError"
      [] a = "io_error" -> "URLError"
      [] OTHER -> "none"

\* a poll loop that lets transport errors other than HTTP 404 through
LeavesPollLoop_Transport(exc) == exc \in {"HTTPError", "URLError"}

\* the except clauses of the poll loop: "except urllib.error.HTTPError"
\* followed by "except Exception" catch every exception of the try body, the
\* RuntimeError of an engine-reported failure included; none leaves the loop
LeavesPollLoop(exc) == FALSE

\* the poll loop without the "if e.code != 404" test
PollLoopLog_Warn404(exc) ==
    CASE exc = "none" -> "none"
      [] exc = "RuntimeError" -> "error"
      [] OTHER -> "warning"

\* what the except clauses of the poll loop log for a caught exception
PollLoopLog(exc) ==
    CASE exc \in {"none", "HTTPError404"} -> "none"
      [] exc = "RuntimeError" -> "error"
      [] OTHER -> "warning"

\* infer_single without its "except TimeoutError: raise" clause
InferSingleExcept_WrapAll(exc) == "RuntimeError"

\* the except clauses of infer_single around _execute_workflow_via_api:
\* TimeoutError is re-raised, anything else becomes RuntimeError
InferSingleExcept(exc) == IF exc = "TimeoutError" THEN "TimeoutError" ELSE "RuntimeError"

\* terminal state of a job that ended by raising exc
RaisedState(exc) == IF exc = "TimeoutError" THEN "TimedOut" ELSE "Failed"

\* ------------------------------------------------------------------------
\* Actions
\* ------------------------------------------------------------------------
\* infer_single raised exc before a job was started: generate returns
RaiseBeforeJob(exc) ==
    /\ response' = ExceptResponse(exc, perspective_name(request.perspectives, i))
    /\ pc' = "done"
    /\ UNCHANGED jobState

\* _execute_workflow_via_api raised exc: infer_single re-raises, generate returns
RaiseFromJob(exc) ==
    /\ jobState' = [jobState EXCEPT ![i + 1] = RaisedState(exc)]
    /\ response' = ExceptResponse(InferSingleExcept(exc),
                                  perspective_name(request.perspectives, i))
    /\ pc' = "done"

\* generate up to the batch loop: health check, then validation
GenerateValidate ==
    /\ pc = "generate"
    /\ \E healthy \in BOOLEAN :
         IF ~healthy
         THEN /\ response' = ErrorResponse(503, "service_unavailable",
                                           "service temporarily unavailable", "")
              /\ pc' = "done"
              /\ last' = Last("health", "unhealthy", "error")
         ELSE IF ValidateRequest(request) # NoResponse
         THEN /\ response' = ValidateRequest(request)
              /\ pc' = "done"
              /\ last' = Last("health", "healthy",
                              IF response'.error = "invalid_image"
                              THEN "warning" ELSE "none")
         ELSE /\ pc' = "infer"
              /\ last' = Last("health", "healthy", "none")
              /\ UNCHANGED response
    /\ UNCHANGED <<request, i, generated_images, workflow, prompt_id, elapsed, files,
                   submissions, pollCount, fetchCount, jobState, seen>>
    /\ UNCHANGED libVars

\* infer_single up to the call of _execute_workflow_via_api: health check,
\* input image written, workflow created and written
InferSingleStart ==
    /\ pc = "infer"
    /\ \E healthy \in BOOLEAN, w \in WriteOutcomes, partial \in BOOLEAN,
          r \in RandomSeeds :
         LET cid == client_id(i)
             ps == request.perspectives
         IN
         IF ~healthy
         THEN /\ RaiseBeforeJob("RuntimeError")
              /\ last' = Last("health", "unhealthy", "error")
              /\ UNCHANGED <<files, workflow>>
         ELSE IF w = "image_write_fails"
         THEN /\ RaiseBeforeJob("ValueError")
              /\ last' = Last("write", w, "error")
              /\ files' = files \cup (IF partial THEN {InputFile(cid)} ELSE {})
              /\ UNCHANGED workflow
         ELSE IF CreateWorkflowRaises(request.seed)
         THEN /\ RaiseBeforeJob("RuntimeError")
              /\ last' = Last("create_workflow", "ValueError", "error")
              /\ files' = files \cup {InputFile(cid)}
              /\ UNCHANGED workflow
         ELSE IF w = "workflow_write_fails"
         THEN /\ RaiseBeforeJob("OSError")
              /\ last' = Last("write", w, "error")
              /\ files' = files \cup {InputFile(cid)}
                                \cup (IF partial THEN {WorkflowFile(cid)} ELSE {})
              /\ UNCHANGED workflow
         ELSE /\ files' = files \cup {InputFile(cid), WorkflowFile(cid)}
              /\ workflow' = create_workflow(
                                 InputFile(cid), ps[i + 1].prompt, request.steps.v,
                                 request.cfg_scale.v, request.seed,
                                 [prefix |-> perspective_id(ps, i), cid |-> cid], r)
              /\ pc' = "submit"
              /\ jobState' = [jobState EXCEPT ![i + 1] = "Init"]
              /\ last' = Last("write", "ok", "none")
              /\ UNCHANGED response
    /\ pollCount' = 0
    /\ fetchCount' = 0
    /\ seen' = {}
    /\ prompt_id' = None
    /\ elapsed' = 0
    /\ UNCHANGED <<request, i, generated_images, submissions>>
    /\ UNCHANGED libVars

\* the submission repeated once when it raised
Submit_Retry ==
    /\ pc = "submit"
    /\ \E a \in SubmitAnswers :
         /\ submissions' = Append(submissions,
                                  [perspective |-> i, client_id |-> client_id(i)])
         /\ IF SubmitRaises(a) = "none"
            THEN /\ prompt_id' = IF a = "ok" THEN PromptId(i) ELSE None
                 /\ pc' = "loop"
                 /\ jobState' = [jobState EXCEPT ![i + 1] = "Submitted"]
                 /\ last' = Last("submit", a, "none")
                 /\ UNCHANGED response
            ELSE IF last.op # "submit"
            THEN /\ last' = Last("submit", a, "error")
                 /\ UNCHANGED <<prompt_id, pc, jobState, response>>
            ELSE /\ RaiseFromJob(SubmitRaises(a))
                 /\ last' = Last("submit", a, "error")
                 /\ UNCHANGED prompt_id
    /\ elapsed' = 0
    /\ UNCHANGED <<request, i, generated_images, workflow, files, pollCount,
                   fetchCount, seen>>
    /\ UNCHANGED libVars

\* _execute_workflow_via_api, step 1: POST /prompt
Submit ==
    /\ pc = "submit"
    /\ \E a \in SubmitAnswers :
         /\ submissions' = Append(submissions,
                                  [perspective |-> i, client_id |-> client_id(i)])
         /\ IF SubmitRaises(a) = "none"
            THEN /\ prompt_id' = IF a = "ok" THEN PromptId(i) ELSE None
                 /\ pc' = "loop"
                 /\ jobState' = [jobState EXCEPT ![i + 1] = "Submitted"]
                 /\ last' = Last("submit", a, "none")
                 /\ UNCHANGED response
            ELSE /\ RaiseFromJob(SubmitRaises(a))
                 /\ last' = Last("submit", a, "error")
                 /\ UNCHANGED prompt_id
    /\ elapsed' = 0
    /\ UNCHANGED <<request, i, generated_images, workflow, files, pollCount,
                   fetchCount, seen>>
    /\ UNCHANGED libVars

\* the poll loop with start_time taken anew in every iteration
SleepAndLoop_NoProgress(d) ==
    /\ elapsed' = 0
    /\ pc' = "loop"

\* the rest of an iteration of the poll loop after the try statement:
\* time.sleep(1); d is the time the engine call took
SleepAndLoop(d) ==
    /\ elapsed' = elapsed + 1 + d
    /\ pc' = "loop"

\* one iteration of the poll loop: GET /history/<prompt_id>
Poll ==
    /\ pc = "loop"
    /\ elapsed < Timeout
    /\ \E a \in PollAnswers, d \in PollDelays :
         /\ a \in EntryAnswers => prompt_id # None
         /\ pollCount' = pollCount + 1
         /\ seen' = seen \cup {PollKind(a)}
         /\ IF a = "done"
            THEN /\ pc' = "fetch"
                 /\ jobState' = [jobState EXCEPT ![i + 1] = "Fetching"]
                 /\ last' = Last("poll", PollKind(a), "none")
                 /\ UNCHANGED <<elapsed, response>>
            ELSE IF LeavesPollLoop(PollRaises(a))
            THEN /\ RaiseFromJob(PollRaises(a))
                 /\ last' = Last("poll", PollKind(a), "error")
                 /\ UNCHANGED elapsed
            ELSE /\ SleepAndLoop(d)
                 /\ last' = Last("poll", PollKind(a), PollLoopLog(PollRaises(a)))
                 /\ UNCHANGED <<jobState, response>>
    /\ UNCHANGED <<request, i, generated_images, workflow, prompt_id, files,
                   submissions, fetchCount>>
    /\ UNCHANGED libVars

\* the batch loop inserting each result at the front of the list
ReturnImage_Prepend(img_bytes) ==
    LET ps == request.perspectives
        cid == client_id(i)
    IN
    /\ files' = files \ {InputFile(cid), WorkflowFile(cid)}
    /\ generated_images' =
           <<[perspective_id |-> perspective_id(ps, i),
              perspective_name |-> perspective_name(ps, i),
              image |-> b64encode(img_bytes),
              seed_used |-> seed_used(request.seed)]>> \o generated_images
    /\ jobState' = [jobState EXCEPT ![i + 1] = "Done"]
    /\ IF i + 1 < Len(ps)
       THEN /\ i' = i + 1
            /\ pc' = "infer"
            /\ UNCHANGED response
       ELSE /\ response' = SuccessResponse(generated_images')
            /\ pc' = "done"
            /\ UNCHANGED i

\* infer_single after _execute_workflow_via_api returned img_bytes, and the
\* rest of the iteration of generate's batch loop; after the last
\* perspective, the success response
ReturnImage(img_bytes) ==
    LET ps == request.perspectives
        cid == client_id(i)
    IN
    /\ files' = files \ {InputFile(cid), WorkflowFile(cid)}
    /\ generated_images' =
           Append(generated_images,
                  [perspective_id |-> perspective_id(ps, i),
                   perspective_name |-> perspective_name(ps, i),
                   image |-> b64encode(img_bytes),
                   seed_used |-> seed_used(request.seed)])
    /\ jobState' = [jobState EXCEPT ![i + 1] = "Done"]
    /\ IF i + 1 < Len(ps)
       THEN /\ i' = i + 1
            /\ pc' = "infer"
            /\ UNCHANGED response
       ELSE /\ response' = SuccessResponse(generated_images')
            /\ pc' = "done"
            /\ UNCHANGED i

\* the artifact fetch of the poll loop: _get_image_from_comfyui, GET /view
Fetch ==
    /\ pc = "fetch"
    /\ \E a \in FetchAnswers, d \in PollDelays :
         /\ fetchCount' = fetchCount + 1
         /\ IF FetchRaises(a) = "none"
            THEN /\ ReturnImage(ImageBytes(prompt_id))
                 /\ last' = Last("fetch", "ok", "none")
                 /\ UNCHANGED elapsed
            ELSE IF LeavesPollLoop(FetchRaises(a))
            THEN /\ RaiseFromJob(FetchRaises(a))
                 /\ last' = Last("fetch", "failed", "error")
                 /\ UNCHANGED <<elapsed, i, generated_images, files>>
            ELSE /\ SleepAndLoop(d)
                 /\ jobState' = [jobState EXCEPT ![i + 1] = "Submitted"]
                 /\ last' = Last("fetch", "failed", PollLoopLog(FetchRaises(a)))
                 /\ UNCHANGED <<i, generated_images, files, response>>
    /\ UNCHANGED <<request, workflow, prompt_id, submissions, pollCount, seen>>
    /\ UNCHANGED libVars

\* the loop condition time.time() - start_time < timeout fails: TimeoutError
TimeOut ==
    /\ pc = "loop"
    /\ elapsed >= Timeout
    /\ RaiseFromJob("TimeoutError")
    /\ last' = Last("timeout", "", "error")
    /\ UNCHANGED <<request, i, generated_images, workflow, prompt_id, elapsed, files,
                   submissions, pollCount, fetchCount, seen>>
    /\ UNCHANGED libVars

\* the caller makes its next call of error_handler.py
CreateError ==
    /\ pc = "call"
    /\ pending # <<>>
    /\ Head(pending).fn \in {c.fn : c \in ErrorCalls}
    /\ app_error' = ErrorCallResult(Head(pending))
    /\ calls' = Append(calls, Head(pending))
    /\ pending' = Tail(pending)
    /\ UNCHANGED <<heap, graphs>>
    /\ UNCHANGED generateVars

\* handle_exception is called with an exception infer_single raised
HandleException ==
    /\ pc = "call"
    /\ pending # <<>>
    /\ Head(pending).fn = "handle_exception"
    /\ app_error' = handle_exception(Head(pending))
    /\ calls' = Append(calls, Head(pending))
    /\ pending' = Tail(pending)
    /\ UNCHANGED <<heap, graphs>>
    /\ UNCHANGED generateVars

\* the record of a call of workflow_executor.py: its arguments, the graph
\* passed as workflow (0: none), the template create_workflow got (0: none),
\* the exception raised ("none": returned), the graph returned (0: none)
Call(a, wf, template, raised, result) ==
    [args |-> a, workflow |-> wf, template |-> template, raised |-> raised,
     result |-> result]

\* the caller calls inject_workflow_parameters on one of the graphs it holds
InjectWorkflowParameters ==
    /\ pc = "call"
    /\ pending # <<>>
    /\ Head(pending).fn = "inject_workflow_parameters"
    /\ \E k \in 1..Len(graphs), r \in RandomSeeds :
         LET a == Head(pending)
             wf == graphs[k]
         IN  IF CreateWorkflowRaises(a.seed)
             THEN /\ calls' = Append(calls, Call(a, wf, 0, "ValueError", 0))
                  /\ UNCHANGED <<heap, graphs>>
             ELSE /\ heap' = inject_workflow_parameters(heap, wf, a, r)
                  /\ graphs' = Append(graphs, Len(deepcopy(heap, wf)))
                  /\ calls' = Append(calls, Call(a, wf, 0, "none",
                                                 Len(deepcopy(heap, wf))))
    /\ pending' = Tail(pending)
    /\ UNCHANGED app_error
    /\ UNCHANGED generateVars

\* the caller calls create_workflow: a template from get_workflow_template,
\* then inject_workflow_parameters on it
CreateWorkflow ==
    /\ pc = "call"
    /\ pending # <<>>
    /\ Head(pending).fn = "create_workflow"
    /\ \E r \in RandomSeeds :
         LET a == Head(pending)
             h == get_workflow_template(heap)
             template == Len(h)
         IN  IF CreateWorkflowRaises(a.seed)
             THEN /\ heap' = h
                  /\ graphs' = Append(graphs, template)
                  /\ calls' = Append(calls, Call(a, 0, template, "ValueError", 0))
             ELSE /\ heap' = inject_workflow_parameters(h, template, a, r)
                  /\ graphs' = graphs \o <<template, Len(deepcopy(h, template))>>
                  /\ calls' = Append(calls, Call(a, 0, template, "none",
                                                 Len(deepcopy(h, template))))
    /\ pending' = Tail(pending)
    /\ UNCHANGED app_error
    /\ UNCHANGED generateVars

Next ==
    \/ GenerateValidate
    \/ InferSingleStart
    \/ Submit
    \/ Poll
    \/ Fetch
    \/ TimeOut

Spec == Init /\ [][Next]_vars

RangeSpec == InitRange /\ [][Next]_vars

SeedSpec == InitSeed /\ [][Next]_vars

NextInject ==
    \/ InjectWorkflowParameters
    \/ CreateWorkflow

\* calls of inject_workflow_parameters and create_workflow
InjectSpec == InitInject /\ [][NextInject]_vars

NextError ==
    \/ GenerateValidate
    \/ InferSingleStart
    \/ Submit
    \/ Poll
    \/ Fetch
    \/ TimeOut
    \/ CreateError
    \/ HandleException

\* generate calls and calls of error_handler.py
ErrorSpec == InitError /\ [][NextError]_vars

\* requests with the default parameters and a valid image
LiveRequests ==
    { req \in Requests :
         /\ ImageDecodes(req.image)
         /\ req.steps = [kind |-> "int", v |-> 8]
         /\ req.cfg_scale = [kind |-> "num", v |-> 50]
         /\ req.seed.kind = "none" }

InitLive == Init /\ request \in LiveRequests

\* every engine call returns and every sleep ends: a generate call that can
\* take a step takes one
FairSpec == InitLive /\ [][Next]_vars /\ WF_vars(Next)

\* ------------------------------------------------------------------------
\* Properties
\* ------------------------------------------------------------------------
\* the running (or last) perspective's job
Job == IF i + 1 <= Len(jobState) THEN jobState[i + 1] ELSE "NoJob"

\* generate returned one of the errors of its batch loop
BatchError == pc = "done" /\ response.error \in {"timeout", "generation_error"}

\* C1: when a status poll returns a history entry whose status_str is
\* "error", the orchestrator stops polling at that poll and the job ends in
\* Failed, which generate answers with generation_error / 500; the job never
\* goes on polling and never ends in TimedOut.
C1_EngineErrorFailsJob ==
    "error" \in seen =>
        /\ pc = "done"
        /\ Job = "Failed"
        /\ response.error = "generation_error"
        /\ response.status_code = 500

\* C2: fail-fast.  When generate returns an error of its batch loop, the
\* error names the perspective at the loop index, every earlier perspective's
\* job is Done, no job exists and no submission was made for any later
\* perspective, and the response carries none of the images produced so far.
C2_FailFast ==
    BatchError =>
        /\ response.about = perspective_name(request.perspectives, i)
        /\ response.images = <<>>
        /\ Len(generated_images) = i
        /\ \A k \in 1..Len(jobState) :
              /\ k < i + 1 => jobState[k] = "Done"
              /\ k > i + 1 => jobState[k] = "NoJob"
        /\ Len(submissions) <= i + 1
        /\ \A k \in 1..Len(submissions) : submissions[k].perspective <= i

\* a batch of three fails at its second perspective, after one image
C2_Witness ==
    /\ BatchError
    /\ Len(request.perspectives) = 3
    /\ i = 1
    /\ Len(generated_images) = 1
    /\ Job \in {"Failed", "TimedOut"}

\* C3: batch ordering and completeness.  A success response has one images
\* entry per requested perspective, entry k carrying the id, the name and the
\* artifact of the k-th perspective (duplicates included); any response is
\* either that full list or a single error without images.
C3_BatchOrdering ==
    LET ps == request.perspectives IN
    /\ (pc = "done" /\ response.status_code = 200) =>
          /\ Len(ps) > 0
          /\ Len(response.images) = Len(ps)
          /\ \A k \in 1..Len(ps) :
                /\ response.images[k].perspective_id =
                       (IF ps[k].id = Absent THEN str(k - 1) ELSE ps[k].id)
                /\ response.images[k].perspective_name =
                       (IF ps[k].name = Absent THEN "view" \o str(k) ELSE ps[k].name)
                /\ response.images[k].image = b64encode(ImageBytes(PromptId(k - 1)))
    /\ (pc = "done" /\ response.status_code # 200) =>
          /\ response.error # ""
          /\ response.images = <<>>
    /\ pc = "done" <=> response # NoResponse

\* a successful batch of three whose first two perspectives are the same
C3_Witness ==
    /\ pc = "done"
    /\ response.status_code = 200
    /\ Len(request.perspectives) = 3
    /\ request.perspectives[1] = request.perspectives[2]
    /\ request.perspectives[3] # request.perspectives[1]

\* C4: within one generate call the submissions reach the engine in
\* perspective order, at most one per perspective, the submission for a
\* perspective only after the job of the previous one is Done and its image
\* was fetched; at most one job is in flight.
C4_SequentialSubmissions ==
    /\ \A k \in 1..Len(submissions) :
          /\ submissions[k].perspective = k - 1
          /\ k > 1 => (jobState[k - 1] = "Done" /\ Len(generated_images) >= k - 1)
    /\ Len(submissions) <= Len(request.perspectives)
    /\ Cardinality({k \in 1..Len(jobState) :
                       jobState[k] \in {"Init", "Submitted", "Fetching"}}) <= 1
    /\ \A k \in 1..Len(jobState) :
          jobState[k] \in {"Submitted", "Fetching"} => Len(submissions) = k

\* the third submission of a batch is made
C4_Witness ==
    /\ Len(jobState) = 3
    /\ Len(submissions) = 3
    /\ jobState[3] = "Submitted"

\* C5: a job whose polls saw neither an engine error nor a node-80 image
\* when the loop ended ends in TimedOut, and generate answers with timeout /
\* 504 naming the perspective.
C5_TimeoutClassified ==
    (pc = "done" /\ last.op \in {"poll", "fetch", "timeout"}
        /\ "error" \notin seen /\ "done" \notin seen) =>
        /\ Job = "TimedOut"
        /\ last.op = "timeout"
        /\ elapsed >= Timeout
        /\ response.error = "timeout"
        /\ response.status_code = 504
        /\ response.about = perspective_name(request.perspectives, i)

\* a job polled until the budget was spent, never seeing a terminal report
C5_Witness ==
    /\ pc = "done"
    /\ last.op = "timeout"
    /\ pollCount > 1
    /\ seen \subseteq {"not_found", "other"}
    /\ response.status_code = 504

\* C6: termination.  Whatever the engine answers, a job that was started
\* reaches a terminal state (Done, Failed or TimedOut), a terminal state is
\* never left, no poll or fetch is issued while the job is terminal, and the
\* number of polls of a job is at most the timeout in seconds.
C6_JobTerminates ==
    /\ \A k \in 1..MaxPersp :
          (k <= Len(jobState) /\ jobState[k] = "Init")
              ~> (k <= Len(jobState) /\ jobState[k] \in Terminal)
    /\ [][\A k \in 1..Len(jobState) :
             jobState[k] \in Terminal =>
                /\ jobState'[k] = jobState[k]
                /\ (k = i + 1 => (pollCount' = pollCount /\ fetchCount' = fetchCount))]_vars
    /\ [](pollCount <= Timeout)

\* a job the engine never gave an id ends after a poll in every second
C6_Witness ==
    /\ pc = "done"
    /\ prompt_id = None
    /\ Len(jobState) = 1
    /\ jobState[1] = "TimedOut"
    /\ pollCount = Timeout

\* C7: after a poll saw the image of node 80 the artifact is fetched once; a
\* fetch that fails with a transport error ends the job in Failed at once,
\* with no further poll and no second fetch.
C7_FetchFailureFailsJob ==
    /\ fetchCount <= 1
    /\ (last.op = "fetch" /\ last.answer # "ok") => (pc = "done" /\ Job = "Failed")

\* C8: a submission that fails with an I/O or HTTP error, or whose response
\* has an "error" key, takes the job from Init to Failed: no status poll, no
\* artifact fetch, and no second submission for the perspective.
C8_SubmitFailureFailsJob ==
    (last.op = "submit"
        /\ last.answer \in {"rejected", "url_error", "http_error", "timed_out"}) =>
        /\ pc = "done"
        /\ Job = "Failed"
        /\ pollCount = 0
        /\ fetchCount = 0
        /\ Len(submissions) = i + 1

\* C9: a poll answered with HTTP 404, or with a history that lacks the job,
\* leaves the job Submitted, logs nothing, ends nothing, and is followed by
\* the 1 s sleep and the next test of the loop condition.
C9_NotFoundIsPending ==
    [][(pollCount' = pollCount + 1 /\ last'.answer = "not_found") =>
          /\ jobState[i + 1] = "Submitted"
          /\ jobState' = jobState
          /\ last'.log = "none"
          /\ pc' = "loop"
          /\ response' = NoResponse
          /\ elapsed' >= elapsed + 1]_vars

\* a job that was not found on every poll but the last one, and ends Done
C9_Witness ==
    /\ Len(jobState) = 1
    /\ jobState[1] = "Done"
    /\ pollCount = Timeout
    /\ seen = {"not_found", "done"}
    /\ fetchCount = 1

\* the request fails one of the validation checks of generate
RequestInvalid ==
    \/ ~request.image.given
    \/ request.image.len = 0
    \/ ~request.image.decodable
    \/ request.image.nbytes < 100
    \/ request.perspectives = <<>>
    \/ \E k \in 1..Len(request.perspectives) :
          \/ ~request.perspectives[k].isdict
          \/ request.perspectives[k].prompt \in {Absent, ""}
    \/ request.steps.kind # "int" \/ request.steps.v < 4 \/ request.steps.v > 8
    \/ request.cfg_scale.kind # "num" \/ request.cfg_scale.v < 10
    \/ request.cfg_scale.v > 50

\* nothing was done towards a job
NothingDone ==
    /\ files = {}
    /\ workflow = NoWorkflow
    /\ submissions = <<>>
    /\ \A k \in 1..Len(jobState) : jobState[k] = "NoJob"

\* C10 as stated: for a request that fails a validation check, generate
\* returns a 400 response and nothing has been done towards a job.
C10_InvalidRequestGets400 ==
    (pc # "generate" /\ RequestInvalid) =>
        /\ pc = "done"
        /\ response.status_code = 400
        /\ NothingDone

\* C10 as amended: for a request that fails a validation check, generate
\* returns a 400 response when its health check found the engine healthy and
\* the 503 response when it did not; in both cases nothing has been done
\* towards a job.
C10_InvalidRequestRejected ==
    (pc # "generate" /\ RequestInvalid) =>
        /\ pc = "done"
        /\ NothingDone
        /\ last.op = "health"
        /\ last.answer = "healthy" =>
              (response.status_code = 400
                  /\ response.error \in {"validation_error", "invalid_image",
                                         "invalid_params"})
        /\ last.answer = "unhealthy" =>
              (response.status_code = 503 /\ response.error = "service_unavailable")

\* a request with valid image and perspectives and steps out of range is
\* rejected by a healthy service
C10_Witness ==
    /\ pc = "done"
    /\ RequestInvalid
    /\ last.answer = "healthy"
    /\ response.status_code = 400
    /\ response.error = "invalid_params"
    /\ Len(request.perspectives) = 2

\* C11: range validation.  For a request that reached the two range checks
\* (engine healthy, image and perspectives valid): if steps is not an integer
\* in [4,8] generate returns 400 invalid_params with the steps message; else if
\* cfg_scale is not a number in [1.0,5.0] it returns 400 invalid_params with
\* the cfg_scale message; and steps in 4..8 with cfg_scale in [1.0,5.0] is
\* never answered with invalid_params.
C11_RangeValidation ==
    LET steps == request.steps
        cfg_scale == request.cfg_scale
        stepsInRange == steps.kind = "int" /\ steps.v \in 4..8
        cfgInRange == cfg_scale.kind = "num" /\ cfg_scale.v \in 10..50
    IN  (/\ pc # "generate"
         /\ ~(last.op = "health" /\ last.answer = "unhealthy")
         /\ ImageDecodes(request.image)
         /\ request.perspectives # <<>>
         /\ FirstBadPerspective(request.perspectives) = -1) =>
            /\ ~stepsInRange =>
                  response = ErrorResponse(400, "invalid_params",
                                 "steps must be an integer between 4 and 8", "")
            /\ (stepsInRange /\ ~cfgInRange) =>
                  response = ErrorResponse(400, "invalid_params",
                                 "cfg_scale must be a number between 1.0 and 5.0", "")
            /\ (stepsInRange /\ cfgInRange) => response.error # "invalid_params"

\* C12 as stated: when the perspectives list is non-empty and some
\* perspective is not an object or has a missing or empty prompt, generate
\* returns validation_error naming the smallest index of such a perspective,
\* and the response is the one the list cut after that index gets.
C12_FirstBadPerspectiveNamed ==
    LET ps == request.perspectives
        bad(k) == ~ps[k].isdict \/ ps[k].prompt \in {Absent, ""}
    IN  \A k \in 1..Len(ps) :
           (pc # "generate" /\ bad(k) /\ \A j \in 1..(k - 1) : ~bad(j)) =>
               /\ pc = "done"
               /\ response.error = "validation_error"
               /\ response.status_code = 400
               /\ response.about = str(k - 1)
               /\ response =
                     ValidateRequest([request EXCEPT !.perspectives = SubSeq(ps, 1, k)])

\* C12 as amended: the same, for a request whose image passed its checks and
\* a generate call whose health check found the engine healthy.
C12_FirstBadPerspectiveNamedWhenReached ==
    LET ps == request.perspectives
        bad(k) == ~ps[k].isdict \/ ps[k].prompt \in {Absent, ""}
    IN  \A k \in 1..Len(ps) :
           (/\ pc # "generate"
            /\ last.op = "health" /\ last.answer = "healthy"
            /\ request.image.given /\ request.image.len > 0
            /\ request.image.decodable /\ request.image.nbytes >= 100
            /\ bad(k) /\ \A j \in 1..(k - 1) : ~bad(j)) =>
               /\ pc = "done"
               /\ response.error = "validation_error"
               /\ response.status_code = 400
               /\ response.about = str(k - 1)
               /\ response =
                     ValidateRequest([request EXCEPT !.perspectives = SubSeq(ps, 1, k)])

\* a list of three whose second perspective has an empty prompt and whose
\* third is not an object: index 1 is named
C12_Witness ==
    /\ pc = "done"
    /\ last.answer = "healthy"
    /\ Len(request.perspectives) = 3
    /\ request.perspectives[1].prompt = "p"
    /\ request.perspectives[2].prompt = ""
    /\ ~request.perspectives[3].isdict
    /\ response.error = "validation_error"
    /\ response.about = "1"

\* C13: whenever a health check finds the engine unhealthy - at the start of
\* generate or at the start of a perspective's infer_single - no submission
\* is made for that perspective and generate returns service_unavailable / 503.
C13_UnhealthyIsServiceUnavailable ==
    (last.op = "health" /\ last.answer = "unhealthy") =>
        /\ pc = "done"
        /\ Len(submissions) = i
        /\ response.error = "service_unavailable"
        /\ response.status_code = 503

TemplateIds == {NodeOrder[k] : k \in 1..Len(NodeOrder)}

\* the call made last returned a graph
Returned == calls # <<>> /\ calls[Len(calls)].raised = "none"

\* C15: injection fidelity.  In the graph a call on a graph with all nodes of
\* the template has just returned, node 31's image is the input image, node
\* 115's text is the prompt (the empty string included), node 14's steps and
\* cfg are the given steps and cfg, node 80's filename_prefix is the output
\* prefix, and for an integer seed node 14's seed is that integer.
C15_InjectionFidelity ==
    (Returned /\ DOMAIN heap[calls[Len(calls)].result] = TemplateIds) =>
        LET a == calls[Len(calls)].args
            g == calls[Len(calls)].result
        IN  /\ Node(heap, g, "31").inputs.image = a.input_image
            /\ Node(heap, g, "115").inputs.text = a.prompt
            /\ Node(heap, g, "14").inputs.steps = a.steps
            /\ Node(heap, g, "14").inputs.cfg = a.cfg
            /\ Node(heap, g, "80").inputs.filename_prefix = a.output_prefix
            /\ a.seed.kind = "int" =>
                  Node(heap, g, "14").inputs.seed = IntVal(a.seed.int)

\* inject_workflow_parameters returned a graph for the empty prompt and the
\* integer seed -1
C15_Witness ==
    /\ Returned
    /\ calls[Len(calls)].args.fn = "inject_workflow_parameters"
    /\ calls[Len(calls)].args.prompt = StrVal("")
    /\ calls[Len(calls)].args.seed = [kind |-> "int", int |-> -1, chars |-> <<>>]
    /\ DOMAIN heap[calls[Len(calls)].result] = TemplateIds
    /\ Node(heap, calls[Len(calls)].result, "115").inputs.text = StrVal("")
    /\ Node(heap, calls[Len(calls)].result, "14").inputs.seed = IntVal(-1)

\* C16: seed resolution.  In the graph a call has just returned, node 14's
\* seed is: for seed None an integer from 0 up to the largest value randint
\* draws; for an integer seed that integer; for a string of two decimal
\* digits the integer the string denotes.
C16_SeedResolution ==
    (Returned /\ "14" \in DOMAIN heap[calls[Len(calls)].result]) =>
        LET a == calls[Len(calls)].args
            seed == Node(heap, calls[Len(calls)].result, "14").inputs.seed
        IN  /\ a.seed.kind = "none" =>
                  (seed.t = "int" /\ seed.n >= 0 /\ seed.n \in RandomSeeds)
            /\ a.seed.kind = "int" => seed = IntVal(a.seed.int)
            /\ \A n \in 0..99 :
                  (a.seed.kind = "str"
                      /\ a.seed.chars = <<DecimalStr[(n \div 10) + 1],
                                          DecimalStr[(n % 10) + 1]>>) =>
                      seed = IntVal(n)

\* a graph was returned for the seed "12"
C16_Witness ==
    /\ Returned
    /\ calls[Len(calls)].args.seed.chars = <<"1", "2">>
    /\ "14" \in DOMAIN heap[calls[Len(calls)].result]
    /\ Node(heap, calls[Len(calls)].result, "14").inputs.seed = IntVal(12)

\* C17: a call whose seed is a string that is not a number ("abc", "-5", "")
\* fails: it raises, and returns no graph.
C17_NonNumericSeedRejected ==
    \A k \in 1..Len(calls) :
        LET seed == calls[k].args.seed
        IN  (seed.kind = "str"
                /\ (seed.chars = <<>>
                       \/ \E j \in 1..Len(seed.chars) : seed.chars[j] \notin AsciiDigits)) =>
                (calls[k].raised # "none" /\ calls[k].result = 0)

\* C18: template immutability.  No call modifies an object that existed
\* before it (so the workflow argument is equal before and after the call, at
\* every nesting level); no two graphs - the caller's, the templates
\* get_workflow_template returned, the graphs injections returned - share a
\* dict; and after any sequence of calls, on the same template or not, every
\* graph returned holds the parameters of its own call.
C18_TemplateImmutability ==
    /\ [][\A adr \in 1..Len(heap) : heap'[adr] = heap[adr]]_vars
    /\ [](\A k1, k2 \in 1..Len(graphs) :
             k1 # k2 =>
                ({graphs[k1]} \cup {heap[graphs[k1]][id] : id \in DOMAIN heap[graphs[k1]]})
                  \cap ({graphs[k2]}
                          \cup {heap[graphs[k2]][id] : id \in DOMAIN heap[graphs[k2]]})
                  = {})
    /\ [](\A k \in 1..Len(calls) :
             (calls[k].raised = "none"
                 /\ DOMAIN heap[calls[k].result] = TemplateIds) =>
                LET a == calls[k].args
                    g == calls[k].result
                IN  /\ Node(heap, g, "31").inputs.image = a.input_image
                    /\ Node(heap, g, "115").inputs.text = a.prompt
                    /\ Node(heap, g, "14").inputs.steps = a.steps
                    /\ Node(heap, g, "14").inputs.cfg = a.cfg
                    /\ Node(heap, g, "80").inputs.filename_prefix = a.output_prefix)

\* two injections with different parameters were made from the same template
C18_Witness ==
    /\ Len(calls) = 2
    /\ calls[1].raised = "none"
    /\ calls[2].raised = "none"
    /\ calls[1].workflow = graphs[1]
    /\ calls[2].workflow = graphs[1]
    /\ calls[1].args.prompt # calls[2].args.prompt
    /\ calls[1].args.steps # calls[2].args.steps

\* C19: a call of inject_workflow_parameters on a graph that lacks one of
\* the nodes 31, 115, 14, 80 fails: it raises, and returns no graph.
C19_MissingNodeRejected ==
    \A k \in 1..Len(calls) :
        (calls[k].workflow # 0
            /\ ~(DesignatedNodes \subseteq DOMAIN heap[calls[k].workflow])) =>
            (calls[k].raised # "none" /\ calls[k].result = 0)

\* C20 as stated: a graph create_workflow or inject_workflow_parameters has
\* just returned for a graph with all nodes of the template holds none of
\* the six placeholder literals in any node input, whatever the parameters.
C20_NoPlaceholderLeft ==
    (Returned /\ DOMAIN heap[calls[Len(calls)].result] = TemplateIds) =>
        LET g == calls[Len(calls)].result
        IN  \A id \in DOMAIN heap[g] :
               \A name \in DOMAIN Node(heap, g, id).inputs :
                  Node(heap, g, id).inputs[name] \notin Placeholders

\* C20 as amended: in such a graph a node input holds a placeholder literal
\* only where it is the parameter value the caller passed for that input
\* (the prompt, the input image, the steps, the cfg or the output prefix); the
\* sampler seed is an integer, never the seed placeholder.
C20_NoPlaceholderLeftUnwritten ==
    (Returned /\ DOMAIN heap[calls[Len(calls)].result] = TemplateIds) =>
        LET g == calls[Len(calls)].result
            a == calls[Len(calls)].args
        IN  /\ \A id \in DOMAIN heap[g] :
                  \A name \in DOMAIN Node(heap, g, id).inputs :
                     Node(heap, g, id).inputs[name] \in Placeholders =>
                        \/ <<id, name>> = <<"115", "text">>
                              /\ a.prompt \in Placeholders
                        \/ <<id, name>> = <<"31", "image">>
                              /\ a.input_image \in Placeholders
                        \/ <<id, name>> = <<"14", "steps">> /\ a.steps \in Placeholders
                        \/ <<id, name>> = <<"14", "cfg">> /\ a.cfg \in Placeholders
                        \/ <<id, name>> = <<"80", "filename_prefix">>
                              /\ a.output_prefix \in Placeholders
            /\ Node(heap, g, "14").inputs.seed.t = "int"
            /\ Node(heap, g, "14").inputs.seed # SEED_PLACEHOLDER

\* create_workflow returned a graph for seed None and a prompt that is no
\* placeholder: no input holds a placeholder
C20_Witness ==
    /\ Returned
    /\ calls[Len(calls)].args.fn = "create_workflow"
    /\ calls[Len(calls)].args.seed.kind = "none"
    /\ calls[Len(calls)].args.prompt = StrVal("p")
    /\ \A id \in DOMAIN heap[calls[Len(calls)].result] :
          \A name \in DOMAIN Node(heap, calls[Len(calls)].result, id).inputs :
             Node(heap, calls[Len(calls)].result, id).inputs[name] \notin Placeholders

\* the node ids the inputs of node id of graph g refer to: the producers of
\* its inputs of the form ["<node id>", 0]
InputRefs(h, g, id) ==
    { Node(h, g, id).inputs[name].s :
        name \in { nm \in DOMAIN Node(h, g, id).inputs :
                      Node(h, g, id).inputs[nm].t = "link" } }

\* the nodes of S and the nodes they reach in up to n reference steps
RECURSIVE Upstream(_, _, _, _)
Upstream(h, g, S, n) ==
    IF n = 0
    THEN S
    ELSE Upstream(h, g,
                  S \cup UNION { InputRefs(h, g, id) : id \in S \cap DOMAIN h[g] },
                  n - 1)

\* C21: graph well-formedness.  When the caller starts from the template,
\* in every graph held (the templates get_workflow_template returned and the
\* graphs injection made from them) every reference input names a node of the
\* same graph, and no node reaches itself along references.
C21_GraphWellFormed ==
    DOMAIN heap[graphs[1]] = TemplateIds =>
        \A k \in 1..Len(graphs) :
            \A id \in DOMAIN heap[graphs[k]] :
                /\ InputRefs(heap, graphs[k], id) \subseteq DOMAIN heap[graphs[k]]
                /\ id \notin Upstream(heap, graphs[k], InputRefs(heap, graphs[k], id),
                                      Cardinality(DOMAIN heap[graphs[k]]))

\* create_workflow returned a graph made by injection from a fresh template:
\* its sampler refers to nodes 1, 115, 3 and 10, and reaches the image loader
C21_Witness ==
    /\ Returned
    /\ calls[Len(calls)].args.fn = "create_workflow"
    /\ calls[Len(calls)].template \in {graphs[k] : k \in 1..Len(graphs)}
    /\ calls[Len(calls)].result \in {graphs[k] : k \in 1..Len(graphs)}
    /\ InputRefs(heap, calls[Len(calls)].result, "14") = {"1", "115", "3", "10"}
    /\ "31" \in Upstream(heap, calls[Len(calls)].result, {"14"}, 15)

\* C22 as stated: when the caller starts from the template, every graph held
\* (the templates and the graphs injection made from them) has exactly 14
\* nodes.
C22_FourteenNodes ==
    DesignatedNodes \subseteq DOMAIN heap[graphs[1]] =>
        \A k \in 1..Len(graphs) : Cardinality(DOMAIN heap[graphs[k]]) = 14

\* C22 as amended: every such graph has exactly 15 nodes.
C22_FifteenNodes ==
    DesignatedNodes \subseteq DOMAIN heap[graphs[1]] =>
        \A k \in 1..Len(graphs) : Cardinality(DOMAIN heap[graphs[k]]) = 15

\* create_workflow returned: the template it got and the graph it made from
\* it have 15 nodes each
C22_Witness ==
    /\ Returned
    /\ calls[Len(calls)].args.fn = "create_workflow"
    /\ Cardinality(DOMAIN heap[calls[Len(calls)].template]) = 15
    /\ Cardinality(DOMAIN heap[calls[Len(calls)].result]) = 15
    /\ calls[Len(calls)].result # calls[Len(calls)].template

\* the node inputs the _inject_* functions assign to
InjectedFields ==
    { <<"31", "image">>, <<"115", "text">>, <<"14", "seed">>, <<"14", "steps">>,
      <<"14", "cfg">>, <<"80", "filename_prefix">> }

\* the graph a call injected into: the workflow argument, or the template
\* create_workflow got
InputGraph(c) == IF c.workflow # 0 THEN c.workflow ELSE c.template

\* C23: injection frame.  The graph a call returned has the node ids of its
\* input graph, and each node has the class_type and the input names of the
\* input graph's node and the same value in every input other than 31.image,
\* 115.text, 14.seed, 14.steps, 14.cfg and 80.filename_prefix.
C23_InjectionFrame ==
    \A k \in 1..Len(calls) :
        calls[k].raised = "none" =>
            LET in == InputGraph(calls[k])
                out == calls[k].result
            IN  /\ DOMAIN heap[out] = DOMAIN heap[in]
                /\ \A id \in DOMAIN heap[out] :
                      /\ Node(heap, out, id).class_type = Node(heap, in, id).class_type
                      /\ DOMAIN Node(heap, out, id).inputs
                            = DOMAIN Node(heap, in, id).inputs
                      /\ \A name \in DOMAIN Node(heap, out, id).inputs :
                            <<id, name>> \notin InjectedFields =>
                               Node(heap, out, id).inputs[name]
                                  = Node(heap, in, id).inputs[name]

\* inject_workflow_parameters returned a graph for a prompt that is not
\* empty: the six fields differ from the input graph's, and node 3 still
\* holds the empty negative prompt
C23_Witness ==
    /\ Returned
    /\ calls[Len(calls)].args.fn = "inject_workflow_parameters"
    /\ calls[Len(calls)].args.prompt = StrVal("p")
    /\ DOMAIN heap[calls[Len(calls)].result] = TemplateIds
    /\ \A f \in InjectedFields :
          Node(heap, calls[Len(calls)].result, f[1]).inputs[f[2]]
             # Node(heap, calls[Len(calls)].workflow, f[1]).inputs[f[2]]
    /\ Node(heap, calls[Len(calls)].result, "3").inputs.text = StrVal("")

\* C24: the sampler seed of a graph that has just been submitted to the
\* engine is an integer of the 63-bit range, whatever seed the request
\* carries.
C24_SubmittedSeedInRange ==
    (last.op = "submit" /\ submissions # <<>>) => workflow.seed \in SeedRange

\* C25: a status poll that failed with an I/O error or an HTTP error other
\* than 404 (a poll without a history entry that raised) leaves the job in
\* Submitted with no response made, is logged as a warning, and is followed by
\* another poll while the budget lasts; a job whose polls all were of that
\* kind (or found a job still running) when the budget was spent ends in
\* TimedOut with timeout / 504, not in Failed.
C25_PollFailureTolerated ==
    /\ (last.op = "poll" /\ last.answer = "other" /\ last.log # "none") =>
          /\ pc = "loop"
          /\ Job = "Submitted"
          /\ last.log = "warning"
          /\ response = NoResponse
          /\ elapsed < Timeout => ENABLED Poll
          /\ elapsed >= Timeout => ENABLED TimeOut
    /\ (last.op = "timeout" /\ seen = {"other"}) =>
          /\ Job = "TimedOut"
          /\ response.error = "timeout"
          /\ response.status_code = 504

\* the second or a later poll of a job failed with a transport error, and
\* budget is left for another poll
C25_Witness ==
    /\ last.op = "poll"
    /\ last.log = "warning"
    /\ pollCount >= 2
    /\ pc = "loop"
    /\ Job = "Submitted"
    /\ elapsed < Timeout

\* C26: the poll loop is entered only with a job id the engine returned: a
\* submission whose response has neither "error" nor "prompt_id" ends the job
\* in Failed without any status poll.
C26_NoPollWithoutJobId ==
    /\ (pc = "loop" \/ pollCount > 0) => prompt_id # None
    /\ (last.op = "submit" /\ last.answer = "no_id") =>
          (pc = "done" /\ Job = "Failed" /\ pollCount = 0)

\* the JSON value su of a seed_used field denotes the integer n: it is n, or
\* the decimal string of n
Denotes(su, n) ==
    \/ su.kind = "int" /\ su.int = n
    \/ su.kind = "str" /\ isdigit(su.chars) /\ ~IntRaises(su.chars)
          /\ int(su.chars) = n

\* C27: in a success response the seed_used of the last image denotes the
\* seed written into the sampler node of the graph submitted for the last
\* perspective, whether the request carries a seed or not.
C27_SeedUsedIsSeedWritten ==
    response.status_code = 200 =>
        Denotes(response.images[Len(response.images)].seed_used, workflow.seed)

\* C28: whenever no infer_single call is under way - before the first one,
\* between two perspectives, and after generate returned with success or with
\* an error - no input image file and no workflow file of the batch is
\* left.
C28_TempFilesRemoved ==
    pc \in {"generate", "infer", "done"} => files = {}

\* C29: the first step of generate reports the first failing check in the
\* order engine health (503 service_unavailable), image present
\* (validation_error), image decodes to at least 100 bytes (invalid_image),
\* perspectives non-empty (validation_error), the perspectives in index order
\* (validation_error naming the smallest failing index), steps
\* (invalid_params), cfg_scale (invalid_params): the response is the one of the
\* earliest failing check whatever later checks would say, and the batch loop
\* is entered only when all pass.
C29_FirstFailingCheckReported ==
    [][pc = "generate" =>
         LET img == request.image
             ps == request.perspectives
             bad == { k \in 1..Len(ps) :
                         ~ps[k].isdict \/ ps[k].prompt \in {Absent, ""} }
             rejected(status, code, text) ==
                 /\ pc' = "done"
                 /\ response'.status_code = status
                 /\ response'.error = code
                 /\ response'.message = text
         IN  IF last'.answer = "unhealthy"
             THEN rejected(503, "service_unavailable", "service temporarily unavailable")
             ELSE IF ~img.given \/ img.len = 0
             THEN rejected(400, "validation_error", "image is required")
             ELSE IF ~img.decodable \/ img.nbytes < 100
             THEN rejected(400, "invalid_image", "invalid base64 image data")
             ELSE IF ps = <<>>
             THEN rejected(400, "validation_error",
                           "at least one perspective is required")
             ELSE IF bad # {}
             THEN /\ pc' = "done"
                  /\ response'.status_code = 400
                  /\ response'.error = "validation_error"
                  /\ response'.about
                        = str((CHOOSE k \in bad : \A m \in bad : k <= m) - 1)
             ELSE IF request.steps.kind # "int" \/ request.steps.v < 4
                        \/ request.steps.v > 8
             THEN rejected(400, "invalid_params",
                           "steps must be an integer between 4 and 8")
             ELSE IF request.cfg_scale.kind # "num" \/ request.cfg_scale.v < 10
                        \/ request.cfg_scale.v > 50
             THEN rejected(400, "invalid_params",
                           "cfg_scale must be a number between 1.0 and 5.0")
             ELSE pc' = "infer" /\ response' = NoResponse]_vars

\* a healthy service answered a request whose image does not decode, whose
\* perspectives are missing and whose steps and cfg_scale are out of range:
\* the response is invalid_image alone
C29_Witness ==
    /\ pc = "done"
    /\ last.op = "health"
    /\ last.answer = "healthy"
    /\ request.image.given
    /\ ~request.image.decodable
    /\ request.perspectives = <<>>
    /\ request.steps.v = 3
    /\ request.cfg_scale.v = 51
    /\ response.error = "invalid_image"
    /\ response.status_code = 400

\* C30: the two failure classifiers agree.  For an exception infer_single
\* raised, the AppError handle_exception returns has the error code and the
\* HTTP status of the response generate's except clauses make for it.
C30_ClassifiersAgree ==
    (calls # <<>> /\ Head(calls).fn = "handle_exception") =>
        /\ app_error.code = ExceptResponse(Head(calls).code, "").error
        /\ app_error.status_code = ExceptResponse(Head(calls).code, "").status_code

====
